---------------------------- MODULE Spec2Model ----------------------------
(***************************************************************************)
(* Water-map generation from height maps.                                  *)
(*                                                                         *)
(*   generate_water_map.py       the single-image transform                *)
(*   generate_all_water_maps.py  the batch driver                          *)
(*                                                                         *)
(* Four specifications:                                                    *)
(*   SpecThreshold  the thresholding of one cell, over all of 0..255^2     *)
(*   SpecNorm       the 16-bit to 8-bit conversion of a pixel row          *)
(*   SpecTransform  generate_water_map, step by step at its I/O points     *)
(*   SpecBatch      the batch driver's main                                *)
(***************************************************************************)
EXTENDS Integers, Sequences, FiniteSets

(***************************************************************************)
(* Program constants and bounds                                            *)
(***************************************************************************)
\* the uint8 value the code writes for water, and the top of the 8-bit range
White == 255

\* width of np.uint8
U8Mod == 256

\* width of np.uint16
U16Mod == 65536

\* pixel_threshold, the command line's default threshold
pixel_threshold == 40

\* the default sigma, 2.0; a sigma is carried in tenths
DefaultSigma == 20

\* largest 16-bit sample drawn in SpecNorm
MaxPix16 == 5

\* number of pixels in a row drawn in SpecNorm
NormLen == 3

\* largest number of cells (height * width) of an image in SpecTransform
MaxCells == 2

\* largest number of PNG files in maps/heightmaps in SpecBatch
MaxFiles == 3

(***************************************************************************)
(* Grids: a grid is a sequence of rows, a row a sequence of cells          *)
(***************************************************************************)
SameShape(g, h) ==
    /\ Len(g) = Len(h)
    /\ \A r \in 1..Len(g) : Len(g[r]) = Len(h[r])

\* all h x w grids over the cell set S
GridsOf(S, h, w) == [1..h -> [1..w -> S]]

\* all grids over S with at most n cells
GridsUpTo(S, n) ==
    UNION { GridsOf(S, hw[1], hw[2]) :
              hw \in { p \in (1..n) \X (1..n) : p[1] * p[2] <= n } }

RECURSIVE SeqMax(_)
SeqMax(s) ==
    IF Len(s) = 0 THEN 0
    ELSE LET m == SeqMax(Tail(s)) IN IF Head(s) > m THEN Head(s) ELSE m

\* ndarray.max(): the largest cell of the whole grid
GridMax(g) == SeqMax([r \in 1..Len(g) |-> SeqMax(g[r])])

(***************************************************************************)
(* Thresholding, generate_water_map line 75                                *)
(*   water_map = (pixels < threshold).astype(np.uint8) * 255               *)
(***************************************************************************)
\* bool -> uint8
BoolToU8(b) == IF b THEN 1 ELSE 0

WaterCellLe(v, t) == (BoolToU8(v <= t) * White) % U8Mod

WaterCell(v, t) == (BoolToU8(v < t) * White) % U8Mod

ThresholdGrid(pixels, t) ==
    [r \in 1..Len(pixels) |->
        [c \in 1..Len(pixels[r]) |-> WaterCell(pixels[r][c], t)]]

(***************************************************************************)
(* Image normalisation, generate_water_map lines 61-72                     *)
(***************************************************************************)
\* np.array(img, dtype=np.uint16)
ToU16(p) == p % U16Mod

\* (p.astype(float32) / max16 * 255).astype(uint8): the product is truncated
\* toward zero by the cast, not rounded
Rescale16(p, max16) == ((p * White) \div max16) % U8Mod

Normalize16(data) ==
    LET pixels_16bit == [r \in 1..Len(data) |->
                            [c \in 1..Len(data[r]) |-> ToU16(data[r][c])]]
        max16 == GridMax(pixels_16bit)
    IN  [r \in 1..Len(data) |->
            [c \in 1..Len(data[r]) |->
                IF max16 > 0 THEN Rescale16(pixels_16bit[r][c], max16)
                ELSE pixels_16bit[r][c] % U8Mod]]

\* img.convert('L') of Pillow: the ITU-R 601-2 luma transform in 16.16 fixed point
Luma(rgb) == (rgb[1] * 19595 + rgb[2] * 38470 + rgb[3] * 7471 + 32768) \div 65536

ConvertL(data) ==
    [r \in 1..Len(data) |-> [c \in 1..Len(data[r]) |-> Luma(data[r][c])]]

\* the mode dispatch of lines 61-72
Normalize(mode, data) ==
    IF mode = "I" \/ mode = "I;16" THEN Normalize16(data)
    ELSE IF mode # "L" THEN ConvertL(data)
    ELSE data

(***************************************************************************)
(* Smoothing, apply_water_smoothing lines 16-43                            *)
(*                                                                         *)
(* ndimage.gaussian_filter is separable, one pass per axis, boundary mode  *)
(* 'reflect' (d c b a | a b c d | d c b a), kernel radius                  *)
(* int(4.0 * sigma + 0.5), weights exp(-x^2 / (2 sigma^2)) normalised to   *)
(* sum 1; an axis whose sigma is not above 1e-15 is not filtered.  The     *)
(* kernels of sigma 1.0 and 2.0 are tabulated, their weights carried in    *)
(* thousandths; the sums stay exact integers until the final cast, and     *)
(* float32 rounding is not modelled.                                       *)
(***************************************************************************)
Kernel(sigma) ==
    IF sigma = 10 THEN << 0, 4, 54, 242, 399, 242, 54, 4, 0 >>
    ELSE << 0, 0, 2, 9, 27, 65, 121, 176, 200, 176, 121, 65, 27, 9, 2, 0, 0 >>

RECURSIVE SeqSum(_)
SeqSum(s) == IF Len(s) = 0 THEN 0 ELSE Head(s) + SeqSum(Tail(s))

KernelSum(sigma) == SeqSum(Kernel(sigma))

Radius(sigma) == (Len(Kernel(sigma)) - 1) \div 2

\* index j of the 'reflect' extension of a line of n cells (a multiple of
\* the period 2n is added first, so that the dividend is not negative)
Reflect(j, n) ==
    LET m == (j - 1 + 4 * n * Len(Kernel(DefaultSigma))) % (2 * n)
    IN  IF m < n THEN m + 1 ELSE 2 * n - m

\* one pass along a line
Filter1D(line, sigma) ==
    LET n == Len(line)
        K == Kernel(sigma)
        R == Radius(sigma)
    IN  [i \in 1..n |->
            SeqSum([k \in 1..Len(K) |-> K[k] * line[Reflect(i + k - 1 - R, n)]])]

\* axis 0 (down the columns), then axis 1 (along the rows)
GaussianFilter(g, sigma) ==
    LET h == Len(g)
        w == Len(g[1])
        cols == [c \in 1..w |-> Filter1D([r \in 1..h |-> g[r][c]], sigma)]
        pass0 == [r \in 1..h |-> [c \in 1..w |-> cols[c][r]]]
    IN  [r \in 1..h |-> Filter1D(pass0[r], sigma)]

Clip(x, lo, hi) == IF x < lo THEN lo ELSE IF x > hi THEN hi ELSE x

\* lines 31-39: /255.0, gaussian_filter, clip to [0,1], * 255, astype(uint8)
Smoothed(water_map, sigma) ==
    IF sigma <= 0 THEN water_map
    ELSE LET S2 == KernelSum(sigma) * KernelSum(sigma)
             blur == GaussianFilter(water_map, sigma)
         IN  [r \in 1..Len(blur) |->
                [c \in 1..Len(blur[r]) |->
                    (Clip(blur[r][c], 0, White * S2) \div S2) % U8Mod]]

\* lines 40-43 returning the grid scaled to 0..1, as line 31 leaves it
SmoothingUnavailableScaled(water_map) ==
    [map |-> [r \in 1..Len(water_map) |->
                [c \in 1..Len(water_map[r]) |-> water_map[r][c] \div White]],
     warned |-> TRUE]

\* lines 40-43: the ImportError handler warns and returns water_map itself
SmoothingUnavailable(water_map) == [map |-> water_map, warned |-> TRUE]

apply_water_smoothing(water_map, sigma, scipy) ==
    IF scipy THEN [map |-> Smoothed(water_map, sigma), warned |-> FALSE]
    ELSE SmoothingUnavailable(water_map)

(***************************************************************************)
(* Paths: a path is the sequence of its components, << >> is "."           *)
(***************************************************************************)
\* Path.parent; the parent of "." is "."
Parent(p) == IF Len(p) = 0 THEN p ELSE SubSeq(p, 1, Len(p) - 1)

\* Path.name
Name(p) == IF Len(p) = 0 THEN "" ELSE p[Len(p)]

\* line 84 with one .parent only: the directory lands inside heightmaps/
OutputDirInside(heightmap) == Append(Parent(heightmap), "derived-watermaps")

\* line 84: heightmap_path.parent.parent / "derived-watermaps"
OutputDir(heightmap) == Append(Parent(Parent(heightmap)), "derived-watermaps")

\* line 86: output_dir / heightmap_path.name
DefaultOutput(heightmap) == Append(OutputDir(heightmap), Name(heightmap))

\* every directory above p, "." included
Ancestors(p) == { SubSeq(p, 1, k) : k \in 0..(Len(p) - 1) }

(***************************************************************************)
(* State                                                                   *)
(***************************************************************************)
VARIABLES
    \* SpecThreshold: one intensity, one threshold, the classified cell
    tv, tt, tcell,
    \* SpecNorm: a row of 16-bit samples and its 8-bit conversion
    row16, row8,
    \* SpecTransform: generate_water_map
    pc,          \* position in generate_water_map
    call,        \* the arguments of the call
    scipy,       \* whether `from scipy import ndimage` succeeds
    img,         \* the opened image: its mode and its data
    pixels,      \* the 8-bit intensity grid
    water_map,   \* the water grid
    warned,      \* the smoothing-skipped warning was printed
    output_path, \* the local output_path: << >> is None, << p >> a path
    dirs,        \* the directories that exist
    files,       \* the files that exist, path -> content
    created,     \* Image.save created the file it is writing
    io,          \* the file system operations performed so far, in order
    ret,         \* how the call ended
    \* SpecBatch: main of generate_all_water_maps.py
    bpc, args, dir_exists, dir_files, heightmaps, runs, exit_code, printed

pvars == << tv, tt, tcell >>

nvars == << row16, row8 >>

tvars == << pc, call, scipy, img, pixels, water_map, warned, output_path,
            dirs, files, created, io, ret >>

bvars == << bpc, args, dir_exists, dir_files, heightmaps, runs, exit_code,
            printed >>

vars == << pvars, nvars, tvars, bvars >>

\* the variables of a specification that does not use them
IdleP == tv = 0 /\ tt = 0 /\ tcell = << >>

IdleN == row16 = << >> /\ row8 = << >>

IdleT ==
    /\ pc = "idle" /\ call = << >> /\ scipy = FALSE /\ img = << >>
    /\ pixels = << >> /\ water_map = << >> /\ warned = FALSE
    /\ output_path = << >> /\ dirs = {} /\ files = << >> /\ created = FALSE
    /\ io = << >> /\ ret = << >>

IdleB ==
    /\ bpc = "idle" /\ args = << >> /\ dir_exists = FALSE /\ dir_files = {}
    /\ heightmaps = << >> /\ runs = << >> /\ exit_code = -1 /\ printed = << >>

(***************************************************************************)
(* SpecThreshold: line 75 applied to one cell, for every intensity and     *)
(* every threshold of the 8-bit range                                      *)
(***************************************************************************)
InitThreshold ==
    /\ tv \in 0..White
    /\ tt \in 0..White
    /\ tcell = << >>
    /\ IdleN /\ IdleT /\ IdleB

ApplyThreshold ==
    /\ tcell = << >>
    /\ tcell' = << WaterCell(tv, tt) >>
    /\ UNCHANGED << tv, tt, nvars, tvars, bvars >>

NextThreshold == ApplyThreshold

SpecThreshold == InitThreshold /\ [][NextThreshold]_vars

(***************************************************************************)
(* SpecNorm: lines 63-67 applied to a row of 16-bit samples                *)
(***************************************************************************)
Samples16 == (0..MaxPix16) \cup { U16Mod - 1 }

InitNorm ==
    /\ row16 \in [1..NormLen -> Samples16]
    /\ row8 = << >>
    /\ IdleP /\ IdleT /\ IdleB

ApplyNormalize ==
    /\ row8 = << >>
    /\ row8' = Normalize16(<< row16 >>)[1]
    /\ UNCHANGED << row16, pvars, tvars, bvars >>

NextNorm == ApplyNormalize

SpecNorm == InitNorm /\ [][NextNorm]_vars

(***************************************************************************)
(* SpecTransform: generate_water_map(heightmap_path, threshold,            *)
(* output_path, smooth, sigma), lines 46-92.  The in-memory pipeline of    *)
(* lines 61-79 is one step; the steps are cut where the function touches   *)
(* the file system: Image.open, mkdir, and Image.save, which opens the     *)
(* destination for writing, writes it and closes it.                       *)
(***************************************************************************)
HeightmapPaths ==
    { << "a.png" >>,
      << "heightmaps", "a.png" >>,
      << "maps", "heightmaps", "a.png" >> }

\* output_path as given: None, a file in ".", a file in a directory that is not there
OutputArgs == { << >>, << << "out.png" >> >>, << << "nodir", "out.png" >> >> }

Thresholds == { -1, 0, pixel_threshold, White, U8Mod }

Sigmas == { 0, 10, DefaultSigma }

Modes == { "L", "I;16", "RGB" }

\* the samples an image of each mode is drawn from
Cells(mode) ==
    IF mode = "L" THEN { pixel_threshold - 1, pixel_threshold, White }
    ELSE IF mode = "I;16" THEN { 0, U16Mod - 1 }
    ELSE { << 0, 0, 0 >>, << White, White, White >> }

\* the content of a file
OldFile == [kind |-> "old", grid |-> << >>]

SourceFile == [kind |-> "heightmap", grid |-> << >>]

PartialFile == [kind |-> "partial", grid |-> << >>]

ImageFile(g) == [kind |-> "image", grid |-> g]

\* f with path p bound to content c
WithFile(f, p, c) == [q \in DOMAIN f \cup { p } |-> IF q = p THEN c ELSE f[q]]

WithoutFile(f, p) == [q \in DOMAIN f \ { p } |-> f[q]]

\* the path the call will write: the one given, or the default
Target(c) ==
    IF c.output_path = << >> THEN DefaultOutput(c.heightmap_path)
    ELSE c.output_path[1]

InitTransform ==
    /\ pc = "start"
    /\ call \in [heightmap_path : HeightmapPaths, threshold : Thresholds,
                 output_path : OutputArgs, smooth : BOOLEAN, sigma : Sigmas]
    /\ scipy \in BOOLEAN
    /\ img = << >> /\ pixels = << >> /\ water_map = << >> /\ warned = FALSE
    /\ output_path = call.output_path
    /\ \E readable \in BOOLEAN, have_dir \in BOOLEAN, have_old \in BOOLEAN :
          /\ dirs = Ancestors(call.heightmap_path)
                      \cup (IF have_dir THEN { OutputDir(call.heightmap_path) }
                            ELSE {})
          /\ have_old => Parent(Target(call)) \in dirs
          /\ have_dir => call.output_path = << >>
          /\ files =
               LET src == IF readable
                          THEN WithFile(<< >>, call.heightmap_path, SourceFile)
                          ELSE << >>
               IN  IF have_old THEN WithFile(src, Target(call), OldFile)
                   ELSE src
    /\ created = FALSE
    /\ io = << >>
    /\ ret = [status |-> "running", path |-> << >>, error |-> ""]
    /\ IdleP /\ IdleN /\ IdleB

\* line 58: Image.open(heightmap_path), the file is there and decodes
Open ==
    /\ pc = "start"
    /\ call.heightmap_path \in DOMAIN files
    /\ \E mode \in Modes :
         \E data \in GridsUpTo(Cells(mode), MaxCells) :
            img' = [mode |-> mode, data |-> data]
    /\ io' = Append(io, "open")
    /\ pc' = "opened"
    /\ UNCHANGED << call, scipy, pixels, water_map, warned, output_path, dirs,
                    files, created, ret >>
    /\ UNCHANGED << pvars, nvars, bvars >>

\* line 58: Image.open raises, the file is missing
OpenFails ==
    /\ pc = "start"
    /\ call.heightmap_path \notin DOMAIN files
    /\ io' = Append(io, "open")
    /\ pc' = "failed"
    /\ ret' = [status |-> "raised", path |-> << >>, error |-> "FileNotFoundError"]
    /\ UNCHANGED << call, scipy, img, pixels, water_map, warned, output_path,
                    dirs, files, created >>
    /\ UNCHANGED << pvars, nvars, bvars >>

\* line 78 without its test: the grid is always smoothed
SmoothRequestedAlways(c) == TRUE

\* line 78: `if smooth`
SmoothRequested(c) == c.smooth

\* lines 61-79: normalise, threshold, smooth if requested
Compute ==
    /\ pc = "opened"
    /\ LET px == Normalize(img.mode, img.data)
           wm == ThresholdGrid(px, call.threshold)
           sm == apply_water_smoothing(wm, call.sigma, scipy)
       IN  /\ pixels' = px
           /\ IF SmoothRequested(call)
              THEN water_map' = sm.map /\ warned' = sm.warned
              ELSE water_map' = wm /\ warned' = warned
    /\ pc' = "computed"
    /\ UNCHANGED << call, scipy, img, output_path, dirs, files, created, io, ret >>
    /\ UNCHANGED << pvars, nvars, bvars >>

\* lines 82-85: the directories after output_dir.mkdir(exist_ok=True), which
\* runs only when output_path is None
ResolvedDirs(c, d) ==
    IF c.output_path = << >> THEN d \cup { OutputDir(c.heightmap_path) } ELSE d

\* lines 82-86: the output path after the default rule
ResolvedPath(c) ==
    IF c.output_path = << >> THEN DefaultOutput(c.heightmap_path)
    ELSE c.output_path[1]

\* lines 81-86: determine the output path
ResolveOutput ==
    /\ pc = "computed"
    /\ dirs' = ResolvedDirs(call, dirs)
    /\ io' = IF dirs' # dirs THEN Append(io, "mkdir") ELSE io
    /\ output_path' = << ResolvedPath(call) >>
    /\ pc' = "resolved"
    /\ UNCHANGED << call, scipy, img, pixels, water_map, warned, files, created,
                    ret >>
    /\ UNCHANGED << pvars, nvars, bvars >>

\* line 90: Image.save opens the destination for writing, which creates or
\* truncates it
SaveOpen ==
    /\ pc = "resolved"
    /\ Parent(output_path[1]) \in dirs
    /\ created' = (output_path[1] \notin DOMAIN files)
    /\ files' = WithFile(files, output_path[1], PartialFile)
    /\ io' = Append(io, "write")
    /\ pc' = "saving"
    /\ UNCHANGED << call, scipy, img, pixels, water_map, warned, output_path,
                    dirs, ret >>
    /\ UNCHANGED << pvars, nvars, bvars >>

\* line 90: the destination cannot be opened, its directory is missing
SaveOpenFails ==
    /\ pc = "resolved"
    /\ Parent(output_path[1]) \notin dirs
    /\ pc' = "failed"
    /\ ret' = [status |-> "raised", path |-> << >>, error |-> "FileNotFoundError"]
    /\ UNCHANGED << call, scipy, img, pixels, water_map, warned, output_path,
                    dirs, files, created, io >>
    /\ UNCHANGED << pvars, nvars, bvars >>

\* lines 90-92: the image is written out and closed, the path returned
SaveFinish ==
    /\ pc = "saving"
    /\ files' = WithFile(files, output_path[1], ImageFile(water_map))
    /\ pc' = "returned"
    /\ ret' = [status |-> "returned", path |-> output_path[1], error |-> ""]
    /\ UNCHANGED << call, scipy, img, pixels, water_map, warned, output_path,
                    dirs, created, io >>
    /\ UNCHANGED << pvars, nvars, bvars >>

\* line 90: the write fails part way (the disk is full); what was written
\* stays where it is
SaveFailsLeaving ==
    /\ pc = "saving"
    /\ pc' = "failed"
    /\ ret' = [status |-> "raised", path |-> << >>, error |-> "OSError"]
    /\ UNCHANGED << call, scipy, img, pixels, water_map, warned, output_path,
                    dirs, files, created, io >>
    /\ UNCHANGED << pvars, nvars, bvars >>

\* line 90: the write fails part way and Pillow removes the file it created
SaveFailsRemoving ==
    /\ pc = "saving"
    /\ created
    /\ files' = WithoutFile(files, output_path[1])
    /\ pc' = "failed"
    /\ ret' = [status |-> "raised", path |-> << >>, error |-> "OSError"]
    /\ UNCHANGED << call, scipy, img, pixels, water_map, warned, output_path,
                    dirs, created, io >>
    /\ UNCHANGED << pvars, nvars, bvars >>

NextTransform ==
    \/ Open
    \/ OpenFails
    \/ Compute
    \/ ResolveOutput
    \/ SaveOpen
    \/ SaveOpenFails
    \/ SaveFinish
    \/ SaveFailsLeaving
    \/ SaveFailsRemoving

SpecTransform == InitTransform /\ [][NextTransform]_vars

(***************************************************************************)
(* Command lines: a token is a sequence of characters                      *)
(***************************************************************************)
Digits == << "0", "1", "2", "3", "4", "5", "6", "7", "8", "9" >>

DigitChar(d) == Digits[d + 1]

DigitVal(ch) == CHOOSE d \in 0..9 : Digits[d + 1] = ch

RECURSIVE NatToStr(_)
NatToStr(n) ==
    IF n < 10 THEN << DigitChar(n) >>
    ELSE NatToStr(n \div 10) \o << DigitChar(n % 10) >>

\* str(int)
IntToStr(n) == IF n < 0 THEN << "-" >> \o NatToStr(-n) ELSE NatToStr(n)

RECURSIVE StrToNat(_)
StrToNat(s) ==
    IF Len(s) = 0 THEN 0
    ELSE StrToNat(SubSeq(s, 1, Len(s) - 1)) * 10 + DigitVal(s[Len(s)])

\* int(token)
StrToInt(s) == IF s[1] = "-" THEN -StrToNat(Tail(s)) ELSE StrToNat(s)

\* str(float) of a sigma given in tenths: "2.0", "0.5"
FloatToStr(k) == NatToStr(k \div 10) \o << "." >> \o << DigitChar(k % 10) >>

\* float(token), in tenths
StrToFloat(s) ==
    LET dot == CHOOSE i \in 1..Len(s) : s[i] = "."
    IN  StrToNat(SubSeq(s, 1, dot - 1)) * 10 + DigitVal(s[dot + 1])

OptT == << "-", "t" >>

OptS == << "-", "s" >>

OptSigma == << "-", "-", "s", "i", "g", "m", "a" >>

PngSuffix == << ".", "p", "n", "g" >>

HasSuffix(name, suf) ==
    /\ Len(name) >= Len(suf)
    /\ SubSeq(name, Len(name) - Len(suf) + 1, Len(name)) = suf

\* generate_water_map.py main, lines 96-128: argparse over the tokens that
\* follow the script name; of the options, the driver passes only -t, -s and
\* --sigma
RECURSIVE ParseArgs(_, _)
ParseArgs(toks, ns) ==
    IF Len(toks) = 0 THEN ns
    ELSE IF Head(toks) = OptT
         THEN ParseArgs(Tail(Tail(toks)),
                        [ns EXCEPT !.threshold = StrToInt(toks[2])])
    ELSE IF Head(toks) = OptS
         THEN ParseArgs(Tail(toks), [ns EXCEPT !.smooth = TRUE])
    ELSE IF Head(toks) = OptSigma
         THEN ParseArgs(Tail(Tail(toks)),
                        [ns EXCEPT !.sigma = StrToFloat(toks[2])])
    ELSE ParseArgs(Tail(toks), [ns EXCEPT !.heightmap = Head(toks)])

\* the argparse defaults of generate_water_map.py, lines 104-126
Defaults ==
    [heightmap |-> << >>, threshold |-> pixel_threshold, output |-> << >>,
     smooth |-> FALSE, sigma |-> DefaultSigma]

(***************************************************************************)
(* SpecBatch: main of generate_all_water_maps.py, lines 11-74              *)
(***************************************************************************)
Stems == << "a", "b", "c", "d", "e" >>

PngNames == { << Stems[i] >> \o PngSuffix : i \in 1..MaxFiles }

OtherNames == { << "n", ".", "t", "x", "t" >> }

\* -t as given: << >> is None
ThresholdArgs == { << >>, << 0 >>, << pixel_threshold >>, << White >> }

SigmaArgs == { 5, DefaultSigma }

\* the orders in which glob may list the set S
Orderings(S) ==
    { q \in [1..Cardinality(S) -> S] : \A i, j \in DOMAIN q : i # j => q[i] # q[j] }

\* heightmaps_dir.glob("*.png")
Glob(S) == { n \in S : HasSuffix(n, PngSuffix) }

\* str(heightmap)
PathToken(name) == << "maps/heightmaps/" >> \o name

\* lines 48 and 63, `if args.threshold:`: None and 0 are both false
ThresholdGiven(a) == a.threshold # << >> /\ a.threshold[1] # 0

\* lines 57-68: the tokens after sys.executable and the script name
Cmd(a, name) ==
    << PathToken(name) >>
    \o (IF ThresholdGiven(a) THEN << OptT, IntToStr(a.threshold[1]) >> ELSE << >>)
    \o (IF a.smooth THEN << OptS, OptSigma, FloatToStr(a.sigma) >> ELSE << >>)

\* subprocess.run(cmd, check=True) raises on a non-zero return code
RunRaisesChecked(rc) == rc # 0

\* line 70: subprocess.run(cmd) returns whatever the return code
RunRaises(rc) == FALSE

\* lines 41-43 left out: an empty listing goes on to the loop
NoFilesNever(hm) == FALSE

\* line 41: `if not heightmaps`
NoFiles(hm) == Len(hm) = 0

InitBatch ==
    /\ bpc = "start"
    /\ args \in [threshold : ThresholdArgs, smooth : BOOLEAN, sigma : SigmaArgs]
    /\ dir_exists \in BOOLEAN
    /\ dir_files \in SUBSET (PngNames \cup OtherNames)
    /\ ~dir_exists => dir_files = {}
    /\ heightmaps = << >>
    /\ runs = << >>
    /\ exit_code = -1
    /\ printed = << >>
    /\ IdleP /\ IdleN /\ IdleT

\* lines 35-38: the directory is missing
ExitNoDir ==
    /\ bpc = "start"
    /\ ~dir_exists
    /\ printed' = Append(printed, "Error: not found")
    /\ exit_code' = 1
    /\ bpc' = "exited"
    /\ UNCHANGED << args, dir_exists, dir_files, heightmaps, runs >>
    /\ UNCHANGED << pvars, nvars, tvars >>

\* lines 40-50: list the PNG files, in whatever order glob yields them
Enumerate ==
    /\ bpc = "start"
    /\ dir_exists
    /\ \E hm \in Orderings(Glob(dir_files)) :
          /\ heightmaps' = hm
          /\ IF NoFiles(hm)
             THEN /\ printed' = Append(printed, "No PNG files found")
                  /\ exit_code' = 1
                  /\ bpc' = "exited"
             ELSE /\ printed' = Append(printed, "Found")
                  /\ exit_code' = exit_code
                  /\ bpc' = "loop"
    /\ UNCHANGED << args, dir_exists, dir_files, runs >>
    /\ UNCHANGED << pvars, nvars, tvars >>

\* lines 52-70: one pass of the loop; the child parses its command line and
\* ends with some return code
RunOne ==
    /\ bpc = "loop"
    /\ Len(runs) < Len(heightmaps)
    /\ \E rc \in { 0, 1 } :
         LET name == heightmaps[Len(runs) + 1]
             cmd == Cmd(args, name)
         IN  /\ runs' = Append(runs, [file |-> name, cmd |-> cmd,
                                      config |-> ParseArgs(cmd, Defaults),
                                      returncode |-> rc])
             /\ IF RunRaises(rc)
                THEN bpc' = "crashed" /\ exit_code' = 1
                ELSE bpc' = bpc /\ exit_code' = exit_code
    /\ UNCHANGED << args, dir_exists, dir_files, heightmaps, printed >>
    /\ UNCHANGED << pvars, nvars, tvars >>

\* lines 72-74: the final report
Finish ==
    /\ bpc = "loop"
    /\ Len(runs) = Len(heightmaps)
    /\ printed' = Append(printed, "All done!")
    /\ exit_code' = 0
    /\ bpc' = "done"
    /\ UNCHANGED << args, dir_exists, dir_files, heightmaps, runs >>
    /\ UNCHANGED << pvars, nvars, tvars >>

NextBatch ==
    \/ ExitNoDir
    \/ Enumerate
    \/ RunOne
    \/ Finish

\* the driver is a sequential program: it takes its next step while it has one
SpecBatch == InitBatch /\ [][NextBatch]_vars /\ WF_vars(NextBatch)

(***************************************************************************)
(* Properties                                                              *)
(***************************************************************************)
\* the Binary Water Grid of an intensity grid: 255 where the intensity is
\* strictly below t, 0 elsewhere
BinaryOf(px, t) ==
    [r \in 1..Len(px) |->
        [c \in 1..Len(px[r]) |-> IF px[r][c] < t THEN 255 ELSE 0]]

\* generate_water_map is past its in-memory pipeline
Computed == pc \in { "computed", "resolved", "saving", "returned" }
            \/ (pc = "failed" /\ water_map # << >>)

\* C1: for every intensity v and threshold t of 0..255 the classified cell is
\* 255 exactly when v < t and 0 otherwise; t = 0 gives no water, and t = 255
\* gives land only for v = 255.
C1_ThresholdStrict ==
    tcell # << >> =>
        /\ tcell[1] \in { 0, 255 }
        /\ tcell[1] = 255 <=> tv < tt
        /\ tt = 0 => tcell[1] = 0
        /\ tt = 255 => (tcell[1] = 0 <=> tv = 255)

\* the boundary v = t - 1 at the top threshold is water
C1_Witness == tcell = << 255 >> /\ tt = 255 /\ tv = 254

\* the configuration the spec calls invalid
InvalidConfig(c) ==
    \/ c.threshold < 0
    \/ c.threshold > 255
    \/ (c.smooth /\ c.sigma <= 0)

\* C2: a call with an invalid configuration (threshold outside [0,255], or
\* smooth with sigma <= 0) fails with InvalidParameterError before any I/O:
\* the input is never opened, no directory and no file is created.
C2_InvalidRejectedBeforeIO ==
    InvalidConfig(call) =>
        /\ io = << >>
        /\ pc \in { "start", "failed" }
        /\ pc = "failed" => ret.error = "InvalidParameterError"
        /\ \A p \in DOMAIN files : files[p].kind \in { "heightmap", "old" }

\* C3: once generate_water_map has returned or failed, the file at the output
\* path is the complete image of the water grid, or it is as it was before
\* the call (absent, or the old file); no partial file is left.
C3_AtomicWrite ==
    (pc \in { "returned", "failed" } /\ output_path # << >>) =>
        LET p == output_path[1]
            wrote == \E i \in DOMAIN io : io[i] = "write"
        IN  IF p \in DOMAIN files
            THEN \/ files[p] = ImageFile(water_map)
                 \/ files[p] = OldFile /\ ~wrote
            ELSE ~wrote \/ created

\* C4: a 16-bit pixel p of an image with maximum max16 > 0 becomes
\* round(p / max16 * 255), an integer nearest to the quotient; with
\* max16 = 0 every pixel becomes 0, and a pixel equal to max16 becomes 255.
C4_RoundToNearest ==
    row8 # << >> =>
        LET max16 == SeqMax(row16)
        IN  \A i \in DOMAIN row16 :
              IF max16 = 0 THEN row8[i] = 0
              ELSE LET d == 255 * row16[i] - row8[i] * max16
                   IN  /\ 2 * d <= max16
                       /\ -2 * d <= max16
                       /\ row16[i] = max16 => row8[i] = 255

\* C5: with a threshold supplied to the batch driver, every child is run with
\* that threshold and that smooth flag, and with that sigma when smoothing
\* (sigma has no effect without it).
C5_ConfigForwarded ==
    args.threshold # << >> =>
        \A i \in DOMAIN runs :
            /\ runs[i].config.threshold = args.threshold[1]
            /\ runs[i].config.smooth = args.smooth
            /\ args.smooth => runs[i].config.sigma = args.sigma

\* C6: whichever children fail, the driver runs the transform once on each
\* listed file, in the listed order, and then reaches its final report.
C6_FailureIsolation ==
    /\ [](\A i \in DOMAIN runs :
            i <= Len(heightmaps) /\ runs[i].file = heightmaps[i])
    /\ (bpc = "loop") ~>
          (/\ bpc = "done"
           /\ Len(runs) = Len(heightmaps)
           /\ \A i \in DOMAIN runs : runs[i].file = heightmaps[i])

\* the report is reached although the first of several children failed
C6_Witness ==
    /\ bpc = "done"
    /\ Len(runs) >= 2
    /\ runs[1].returncode # 0
    /\ runs[2].file # runs[1].file

\* C7: with scipy missing, apply_water_smoothing warns and returns the Binary
\* Water Grid cell for cell, and that grid is what the transform writes.
C7_SmoothingDegrades ==
    (Computed /\ call.smooth /\ ~scipy) =>
        /\ warned
        /\ water_map = BinaryOf(pixels, call.threshold)
        /\ pc = "returned" => files[ret.path] = ImageFile(BinaryOf(pixels, call.threshold))

\* a grid with water and land was written unsmoothed under a positive sigma
C7_Witness ==
    /\ pc = "returned" /\ call.smooth /\ ~scipy /\ call.sigma > 0
    /\ files[ret.path].grid = << << 255, 0 >> >>

\* maps/heightmaps is missing or holds no PNG file
EmptyInput == ~dir_exists \/ \A n \in dir_files : ~HasSuffix(n, PngSuffix)

\* C8: when maps/heightmaps is missing or holds no PNG file the driver prints
\* a diagnostic and exits non-zero, and never runs the transform.
C8_EmptyInputExits ==
    (bpc # "idle" /\ EmptyInput) =>
        /\ runs = << >>
        /\ bpc \in { "start", "exited" }
        /\ bpc = "exited" => (exit_code > 0 /\ Len(printed) = 1)

\* the directory is there, with a file that is no PNG
C8_Witness == bpc = "exited" /\ dir_exists /\ dir_files # {} /\ exit_code = 1

\* C9: with no output path and the input at X/heightmaps/NAME the output is
\* written to X/derived-watermaps/NAME, the directory is there afterwards,
\* and that path is returned; with an output path given the output is
\* written to exactly that path and no directory is created.
C9_OutputPath ==
    pc = "returned" =>
        LET h == call.heightmap_path
        IN  /\ \A p \in DOMAIN files : files[p].kind = "image" => p = ret.path
            /\ ret.path \in DOMAIN files /\ files[ret.path].kind = "image"
            /\ (call.output_path = << >> /\ Len(h) >= 2
                  /\ h[Len(h) - 1] = "heightmaps") =>
                  LET X == SubSeq(h, 1, Len(h) - 2)
                  IN  /\ ret.path = X \o << "derived-watermaps", h[Len(h)] >>
                      /\ (X \o << "derived-watermaps" >>) \in dirs
            /\ call.output_path # << >> =>
                  /\ ret.path = call.output_path[1]
                  /\ dirs = Ancestors(h)
                  /\ \A i \in DOMAIN io : io[i] # "mkdir"

\* the default rule created maps/derived-watermaps and wrote into it
C9_Witness ==
    /\ pc = "returned"
    /\ call.output_path = << >>
    /\ call.heightmap_path = << "maps", "heightmaps", "a.png" >>
    /\ \E i \in DOMAIN io : io[i] = "mkdir"

\* C10: with smooth false the grid computed and written is the thresholded
\* Binary Water Grid: the shape of the input, every cell 0 or 255, whatever
\* sigma is.
C10_UnsmoothedIsBinary ==
    (Computed /\ ~call.smooth) =>
        /\ SameShape(water_map, img.data)
        /\ \A r \in DOMAIN water_map : \A c \in DOMAIN water_map[r] :
              water_map[r][c] \in { 0, 255 }
        /\ water_map = BinaryOf(pixels, call.threshold)
        /\ pc = "returned" => files[ret.path] = ImageFile(water_map)

\* a 2 x 1 grid with water and land, written where smoothing would blur it
C10_Witness ==
    /\ pc = "returned" /\ ~call.smooth /\ scipy /\ call.sigma > 0
    /\ files[ret.path].grid = << << 0 >>, << 255 >> >>

=============================================================================
